---- MODULE Spec2Model ----
(***************************************************************************)
(* serde-evolve: the `Versioned` derive macro and the code it generates.   *)
(*                                                                         *)
(* The macro turns a definition (domain type, chain of version types,      *)
(* mode, error type, transparent flag, envelope name) into three items:    *)
(* the representation enum ("envelope"), the envelope <-> domain           *)
(* conversions, and optionally Serialize/Deserialize for the domain type.  *)
(* The model keeps the generated items as data (what the token stream      *)
(* says) and runs them: one action per generated function, the chain of    *)
(* migrations one edge invocation per step.                                *)
(*                                                                         *)
(* Text is modelled as a sequence of pieces (strings), so that formatting  *)
(* an identifier or a number is a concatenation and not an identity.       *)
(***************************************************************************)
EXTENDS Integers, Sequences, FiniteSets, TLC

VARIABLES
    parsed,     \* the definition as parsed from the derive input (ParsedInput)
    expansion,  \* the macro's output: not yet run, a compile error, or the generated items
    impls,      \* the integrator's From/TryFrom impls, as far as they have been invoked
    procs       \* the running callers of the generated code

vars == <<parsed, expansion, impls, procs>>

(***************************************************************************)
(* Bounds of the model.                                                    *)
(***************************************************************************)
MaxChain == 3   \* longest chain(...) list
MaxVal == 1     \* payload values are 0..MaxVal
NumProcs == 2   \* callers that may run side by side

Val == 0..MaxVal
Procs == 1..NumProcs

(***************************************************************************)
(* Option<T>, as a set with at most one element.                           *)
(***************************************************************************)
None == {}
Some(x) == {x}
unwrap(o) == CHOOSE x \in o : TRUE
unwrap_or(o, d) == IF o = None THEN d ELSE unwrap(o)

(***************************************************************************)
(* Formatting.  (idx + 1).to_string() is the decimal numeral; format_ident *)
(* splices the formatted arguments into the pattern.                       *)
(***************************************************************************)
Digit(d) ==
    CASE d = 0 -> "0" [] d = 1 -> "1" [] d = 2 -> "2" [] d = 3 -> "3"
      [] d = 4 -> "4" [] d = 5 -> "5" [] d = 6 -> "6" [] d = 7 -> "7"
      [] d = 8 -> "8" [] d = 9 -> "9"

RECURSIVE to_string(_)
to_string(k) ==
    IF k < 10 THEN <<Digit(k)>> ELSE to_string(k \div 10) \o <<Digit(k % 10)>>

\* format_ident!("V{}", k)
format_ident_V(k) == <<"V">> \o to_string(k)

\* (mutant) the suffix is written in the singular
format_ident_Version_singular(ident) == ident \o <<"Version">>

\* format_ident!("{}Versions", ident)
format_ident_Versions(ident) == ident \o <<"Versions">>

\* u32::try_from(x).expect("too many versions for u32 discriminant")
\* (x < 2^32, written so that no intermediate exceeds the checker's integers)
u32_try_from(x) ==
    IF x \div (2 ^ 16) < 2 ^ 16 THEN [ok |-> TRUE, value |-> x] ELSE [ok |-> FALSE]

\* iter().skip(k) of a slice
skip(s, k) == SubSeq(s, k + 1, Len(s))

(***************************************************************************)
(* The definitions the macro may be given.                                 *)
(***************************************************************************)
DomainIdent == <<"Account">>
RepIdent == <<"AccountEnvelope">>
ErrorPath == <<"MigrationError">>
TypePath(i) == <<"Account", "V">> \o to_string(i)
ChainOf(n) == [i \in 1..n |-> TypePath(i)]
ModeKeywords == {<<"infallible">>, <<"fallible">>, <<"total">>}

ParsedInputs ==
    [ ident : {DomainIdent},
      representation : {None, Some(RepIdent)},
      mode : {None} \cup {Some(m) : m \in ModeKeywords},
      error : {None, Some(ErrorPath)},
      transparent : BOOLEAN,
      versions : {ChainOf(n) : n \in 0..MaxChain} ]

(***************************************************************************)
(* validate.rs                                                             *)
(***************************************************************************)
Infallible == [kind |-> "Infallible"]
\* (mutant) the mode forgets the error type it was given
Fallible_unit_error(error) == [kind |-> "Fallible", error |-> <<"()">>]

Fallible(error) == [kind |-> "Fallible", error |-> error]

Err(e) == [ok |-> FALSE, error |-> e]
Ok(v) == [ok |-> TRUE, value |-> v]

\* (mutant) the error type is not asked for: fallible mode falls back to a default
validate_without_error_check(p) ==
    IF Len(p.versions) = 0
    THEN Err(<<"chain must contain at least one version type">>)
    ELSE
      LET rep_ident == unwrap_or(p.representation, format_ident_Versions(p.ident))
          mode == unwrap_or(p.mode, <<"fallible">>)
          validated(m) ==
              Ok([ domain_ident |-> p.ident,
                   rep_ident |-> rep_ident,
                   mode |-> m,
                   transparent |-> p.transparent,
                   versions |-> p.versions ])
      IN  CASE mode = <<"infallible">> -> validated(Infallible)
            [] mode = <<"fallible">> ->
                 validated(Fallible(unwrap_or(p.error, <<"Box<dyn Error>">>)))
            [] OTHER ->
                 Err(<<"invalid mode '">> \o mode
                       \o <<"', expected 'infallible' or 'fallible'">>)

validate(p) ==
    IF Len(p.versions) = 0
    THEN Err(<<"chain must contain at least one version type">>)
    ELSE
      LET rep_ident == unwrap_or(p.representation, format_ident_Versions(p.ident))
          mode == unwrap_or(p.mode, <<"fallible">>)
          validated(m) ==
              Ok([ domain_ident |-> p.ident,
                   rep_ident |-> rep_ident,
                   mode |-> m,
                   transparent |-> p.transparent,
                   versions |-> p.versions ])
      IN  CASE mode = <<"infallible">> -> validated(Infallible)
            [] mode = <<"fallible">> ->
                 IF p.error # None
                 THEN validated(Fallible(unwrap(p.error)))
                 ELSE Err(<<"fallible mode requires 'error' attribute">>)
            [] OTHER ->
                 Err(<<"invalid mode '">> \o mode
                       \o <<"', expected 'infallible' or 'fallible'">>)

(***************************************************************************)
(* emit.rs: the generated items, as data.                                  *)
(*                                                                         *)
(* A chain expression `{ let next: T = <expr>.into(); next }` nests the    *)
(* earlier conversions inside the later ones, so it evaluates innermost    *)
(* first: it is kept as the list of its conversions in evaluation order,   *)
(* each with the method it calls and the type it asks for.                 *)
(***************************************************************************)
expect(r) == r.value

conversion(method, ty) == [method |-> method, ty |-> ty]

\* (mutant) the loop starts one type too late and leaves out the first hop
build_infallible_chain_skips_hop(domain_type, version_types, start_idx) ==
    LET rest == skip(version_types, start_idx + 2)
        expr == [j \in 1..Len(rest) |-> conversion("into", rest[j])]
    IN  [ conversions |-> expr \o <<conversion("into", domain_type)>>,
          tail |-> "next" ]

build_infallible_chain(domain_type, version_types, start_idx) ==
    LET rest == skip(version_types, start_idx + 1)
        expr == [j \in 1..Len(rest) |-> conversion("into", rest[j])]
    IN  [ conversions |-> expr \o <<conversion("into", domain_type)>>,
          tail |-> "next" ]

\* (mutant) the loop stops one type early and leaves out the hop into the latest version
build_fallible_chain_skips_last_hop(domain_type, version_types, start_idx) ==
    LET rest == SubSeq(version_types, start_idx + 2, Len(version_types) - 1)
        expr == [j \in 1..Len(rest) |-> conversion("try_into?", rest[j])]
    IN  [ conversions |-> expr \o <<conversion("try_into?", domain_type)>>,
          tail |-> "Ok(next)" ]

\* (mutant) start_idx is ignored: every arm gets the chain of the first version
build_fallible_chain_from_first(domain_type, version_types, start_idx) ==
    LET rest == skip(version_types, 1)
        expr == [j \in 1..Len(rest) |-> conversion("try_into?", rest[j])]
    IN  [ conversions |-> expr \o <<conversion("try_into?", domain_type)>>,
          tail |-> "Ok(next)" ]

build_fallible_chain(domain_type, version_types, start_idx) ==
    LET rest == skip(version_types, start_idx + 1)
        expr == [j \in 1..Len(rest) |-> conversion("try_into?", rest[j])]
    IN  [ conversions |-> expr \o <<conversion("try_into?", domain_type)>>,
          tail |-> "Ok(next)" ]

\* (mutant) the tag does not advance with the index: every variant is renamed "1"
version_str_not_advanced(idx) == to_string(1)

\* (mutant) the 0-based index is written as the tag
version_str_zero_based(idx) == to_string(idx)

\* let version_str = (idx + 1).to_string();
version_str(idx) == to_string(idx + 1)

\* (mutant) the 0-based index is returned as the version
version_num_zero_based(idx) == expect(u32_try_from(idx))

\* let version_num = u32::try_from(idx + 1).expect(..);
version_num(idx) == expect(u32_try_from(idx + 1))

\* (mutant) is_current tests for the first variant
rep_latest_variant_first(num_versions) == format_ident_V(1)

\* let latest_variant = format_ident!("V{}", num_versions);   (the enum's is_current)
rep_latest_variant(num_versions) == format_ident_V(num_versions)

generate_rep_enum(rep_name, version_types) ==
    LET num_versions == Len(version_types)
        current_version == expect(u32_try_from(num_versions))
        variants ==
            [i \in 1..num_versions |->
                LET idx == i - 1
                IN  [ variant_name |-> format_ident_V(idx + 1),
                      rename |-> version_str(idx),
                      ty |-> version_types[i] ]]
        version_match_arms ==
            [i \in 1..num_versions |->
                LET idx == i - 1
                IN  [ variant_name |-> format_ident_V(idx + 1),
                      version_num |-> version_num(idx) ]]
        from_impls ==
            [i \in 1..num_versions |->
                LET idx == i - 1
                IN  [ ty |-> version_types[i],
                      variant_name |-> format_ident_V(idx + 1) ]]
        latest_variant == rep_latest_variant(num_versions)
    IN  [ name |-> rep_name,
          tag |-> <<"_version">>,
          variants |-> variants,
          CURRENT |-> current_version,
          version_match_arms |-> version_match_arms,
          latest_variant |-> latest_variant,
          from_impls |-> from_impls ]

\* (mutant) the projection is wrapped in the first variant
conv_latest_variant_first(num_versions) == format_ident_V(1)

\* (mutant) the latest variant named by its 0-based index
conv_latest_variant_off_by_one(num_versions) == format_ident_V(num_versions - 1)

\* let latest_variant = format_ident!("V{}", num_versions);   (From<&Domain>)
conv_latest_variant(num_versions) == format_ident_V(num_versions)

\* (mutant) `impl From<#domain_type> for #rep_name`: the domain value is taken by value
generate_conversions_consuming_domain(mode, domain_type, rep_name, version_types) ==
    LET num_versions == Len(version_types)
        arms(build(_, _, _)) ==
            [i \in 1..num_versions |->
                LET idx == i - 1
                IN  [ variant_name |-> format_ident_V(idx + 1),
                      chain |-> build(domain_type, version_types, idx) ]]
        rep_to_domain ==
            IF mode.kind = "Infallible"
            THEN [ trait |-> "From",
                   from |-> rep_name, for |-> domain_type,
                   error |-> None,
                   arms |-> arms(build_infallible_chain) ]
            ELSE [ trait |-> "TryFrom",
                   from |-> rep_name, for |-> domain_type,
                   error |-> Some(mode.error),
                   arms |-> arms(build_fallible_chain) ]
        domain_to_rep ==
            [ trait |-> "From",
              from |-> domain_type, for |-> rep_name,
              latest_version_type |-> version_types[(num_versions - 1) + 1],
              latest_variant |-> conv_latest_variant(num_versions) ]
    IN  [ rep_to_domain |-> rep_to_domain, domain_to_rep |-> domain_to_rep ]

\* (mutant) `(1..num_versions)`: the arm of the first version is left out
generate_conversions_without_first_arm(mode, domain_type, rep_name, version_types) ==
    LET num_versions == Len(version_types)
        arms(build(_, _, _)) ==
            [i \in 1..(num_versions - 1) |->
                LET idx == i
                IN  [ variant_name |-> format_ident_V(idx + 1),
                      chain |-> build(domain_type, version_types, idx) ]]
        rep_to_domain ==
            IF mode.kind = "Infallible"
            THEN [ trait |-> "From",
                   from |-> rep_name, for |-> domain_type,
                   error |-> None,
                   arms |-> arms(build_infallible_chain) ]
            ELSE [ trait |-> "TryFrom",
                   from |-> rep_name, for |-> domain_type,
                   error |-> Some(mode.error),
                   arms |-> arms(build_fallible_chain) ]
        latest_version_type == version_types[(num_versions - 1) + 1]
        latest_variant == conv_latest_variant(num_versions)
        domain_to_rep ==
            [ trait |-> "From",
              from |-> <<"&">> \o domain_type, for |-> rep_name,
              latest_version_type |-> latest_version_type,
              latest_variant |-> latest_variant ]
    IN  [ rep_to_domain |-> rep_to_domain, domain_to_rep |-> domain_to_rep ]

generate_conversions(mode, domain_type, rep_name, version_types) ==
    LET num_versions == Len(version_types)
        arms(build(_, _, _)) ==
            [i \in 1..num_versions |->
                LET idx == i - 1
                IN  [ variant_name |-> format_ident_V(idx + 1),
                      chain |-> build(domain_type, version_types, idx) ]]
        rep_to_domain ==
            IF mode.kind = "Infallible"
            THEN [ trait |-> "From",
                   from |-> rep_name, for |-> domain_type,
                   error |-> None,
                   arms |-> arms(build_infallible_chain) ]
            ELSE [ trait |-> "TryFrom",
                   from |-> rep_name, for |-> domain_type,
                   error |-> Some(mode.error),
                   arms |-> arms(build_fallible_chain) ]
        latest_version_type == version_types[(num_versions - 1) + 1]
        latest_variant == conv_latest_variant(num_versions)
        domain_to_rep ==
            [ trait |-> "From",
              from |-> <<"&">> \o domain_type, for |-> rep_name,
              latest_version_type |-> latest_version_type,
              latest_variant |-> latest_variant ]
    IN  [ rep_to_domain |-> rep_to_domain, domain_to_rep |-> domain_to_rep ]

\* (mutant) the latest struct is serialized without going through the envelope
serialize_impl_bare_struct(domain_type, rep_name) ==
    [ for |-> domain_type, via |-> rep_name,
      body |-> <<"from(self)", "0.serialize">> ]

\* #rep_name::from(self).serialize(__serializer)
serialize_impl(domain_type, rep_name) ==
    [ for |-> domain_type, via |-> rep_name,
      body |-> <<"from(self)", "serialize">> ]

\* (mutant) the mode is ignored: the infallible body is emitted in both modes
deserialize_impl_ignores_mode(mode, domain_type, rep_name) ==
    [ for |-> domain_type, via |-> rep_name,
      body |-> <<"deserialize?", "into", "Ok">> ]

\* (mutant) the migration error is handed on as it is, without map_err
deserialize_impl_without_map_err(mode, domain_type, rep_name) ==
    IF mode.kind = "Infallible"
    THEN [ for |-> domain_type, via |-> rep_name,
           body |-> <<"deserialize?", "into", "Ok">> ]
    ELSE [ for |-> domain_type, via |-> rep_name,
           body |-> <<"deserialize?", "try_into", "return">> ]

\* Ok(#rep_name::deserialize(__deserializer)?.into())
\* #rep_name::deserialize(__deserializer)?.try_into().map_err(serde::de::Error::custom)
deserialize_impl(mode, domain_type, rep_name) ==
    IF mode.kind = "Infallible"
    THEN [ for |-> domain_type, via |-> rep_name,
           body |-> <<"deserialize?", "into", "Ok">> ]
    ELSE [ for |-> domain_type, via |-> rep_name,
           body |-> <<"deserialize?", "try_into", "map_err(custom)">> ]

generate_transparent_serde(mode, domain_type, rep_name) ==
    Some([ serialize_impl |-> serialize_impl(domain_type, rep_name),
           deserialize_impl |-> deserialize_impl(mode, domain_type, rep_name) ])

\* (mutant) the transparent flag is not looked at: no serde impls for the domain type
generate_never_transparent(input) ==
    [ rep_enum |-> generate_rep_enum(input.rep_ident, input.versions),
      conversions |->
          generate_conversions(input.mode, input.domain_ident,
                               input.rep_ident, input.versions),
      transparent_serde |-> None ]

generate(input) ==
    LET rep_enum == generate_rep_enum(input.rep_ident, input.versions)
        conversions ==
            generate_conversions(input.mode, input.domain_ident,
                                 input.rep_ident, input.versions)
        transparent_serde ==
            IF input.transparent
            THEN generate_transparent_serde(input.mode, input.domain_ident,
                                            input.rep_ident)
            ELSE None
    IN  [ rep_enum |-> rep_enum,
          conversions |-> conversions,
          transparent_serde |-> transparent_serde ]

\* parse -> validate -> emit::generate, the pipeline of the three modules
validate_and_generate(p) ==
    LET v == validate(p)
    IN  IF v.ok
        THEN [state |-> "items", items |-> generate(v.value)]
        ELSE [state |-> "compile_error", error |-> v.error]

(***************************************************************************)
(* lib.rs: VersionedReceiver::generate, the body of the derive.  Its       *)
(* generate_rep_enum, generate_conversions, generate_transparent_serde and *)
(* build_*_chain are the same token streams as emit.rs's, with the error   *)
(* type read from the receiver; the checks come in lib.rs's own order.     *)
(***************************************************************************)
\* (mutant) the items are generated all the same, with the message as a panic in their bodies
compile_error_deferred(message) == [state |-> "items", items |-> [panic |-> message]]

compile_error(message) == [state |-> "compile_error", error |-> message]

\* (mutant) the error attribute is asked for in every mode
receiver_generate_error_always_required(p) ==
    LET domain_type == p.ident
        rep_name == unwrap_or(p.representation, format_ident_Versions(domain_type))
        mode == unwrap_or(p.mode, <<"fallible">>)
        version_types == p.versions
    IN  IF mode # <<"infallible">> /\ mode # <<"fallible">>
        THEN compile_error(<<"invalid mode '">> \o mode
                             \o <<"', expected 'infallible' or 'fallible'">>)
        ELSE IF p.error = None
        THEN compile_error(<<"fallible mode requires 'error' attribute">>)
        ELSE IF Len(version_types) = 0
        THEN compile_error(<<"chain must contain at least one version type">>)
        ELSE
          LET m == IF mode = <<"infallible">> THEN Infallible
                                               ELSE Fallible(unwrap(p.error))
          IN  [ state |-> "items",
                items |->
                  [ rep_enum |-> generate_rep_enum(rep_name, version_types),
                    conversions |->
                        generate_conversions(m, domain_type, rep_name, version_types),
                    transparent_serde |->
                        IF p.transparent
                        THEN generate_transparent_serde(m, domain_type, rep_name)
                        ELSE None ] ]

\* (mutant) `_ => Mode::Fallible`: an unknown keyword is taken for fallible
receiver_generate_unknown_mode_is_fallible(p) ==
    LET domain_type == p.ident
        rep_name == unwrap_or(p.representation, format_ident_Versions(domain_type))
        mode == unwrap_or(p.mode, <<"fallible">>)
        version_types == p.versions
    IN  IF mode # <<"infallible">> /\ p.error = None
        THEN compile_error(<<"fallible mode requires 'error' attribute">>)
        ELSE IF Len(version_types) = 0
        THEN compile_error(<<"chain must contain at least one version type">>)
        ELSE
          LET m == IF mode = <<"infallible">> THEN Infallible
                                               ELSE Fallible(unwrap(p.error))
          IN  [ state |-> "items",
                items |->
                  [ rep_enum |-> generate_rep_enum(rep_name, version_types),
                    conversions |->
                        generate_conversions(m, domain_type, rep_name, version_types),
                    transparent_serde |->
                        IF p.transparent
                        THEN generate_transparent_serde(m, domain_type, rep_name)
                        ELSE None ] ]

receiver_generate(p) ==
    LET domain_type == p.ident
        rep_name == unwrap_or(p.representation, format_ident_Versions(domain_type))
        mode == unwrap_or(p.mode, <<"fallible">>)
        version_types == p.versions
    IN  IF mode # <<"infallible">> /\ mode # <<"fallible">>
        THEN compile_error(<<"invalid mode '">> \o mode
                             \o <<"', expected 'infallible' or 'fallible'">>)
        ELSE IF mode = <<"fallible">> /\ p.error = None
        THEN compile_error(<<"fallible mode requires 'error' attribute">>)
        ELSE IF Len(version_types) = 0
        THEN compile_error(<<"chain must contain at least one version type">>)
        ELSE
          LET m == IF mode = <<"infallible">> THEN Infallible
                                               ELSE Fallible(unwrap(p.error))
          IN  [ state |-> "items",
                items |->
                  [ rep_enum |-> generate_rep_enum(rep_name, version_types),
                    conversions |->
                        generate_conversions(m, domain_type, rep_name, version_types),
                    transparent_serde |->
                        IF p.transparent
                        THEN generate_transparent_serde(m, domain_type, rep_name)
                        ELSE None ] ]

(***************************************************************************)
(* Run-time values.                                                        *)
(*                                                                         *)
(* A value of a version struct or of the domain type is its type and its   *)
(* content.  Wire data is a flat object: an optional marker field (key and *)
(* string value) beside the other fields, which are the fields of one of   *)
(* the shapes (or of none of them) holding a content.                      *)
(***************************************************************************)
Value(ty, v) == [kind |-> "value", ty |-> ty, val |-> v]
Envelope(variant, payload) == [kind |-> "env", variant |-> variant, payload |-> payload]
Wire(marker, fields) == [kind |-> "wire", marker |-> marker, fields |-> fields]
Marker(key, value) == [key |-> key, value |-> value]
SerdeError(what, inner) ==
    [kind |-> "err", class |-> "serde", what |-> what, inner |-> inner]
MigrationErr(e) == [kind |-> "err", class |-> "migration", err |-> e]
RustcError == [kind |-> "rustc_error"]

\* The values of the error type the integrator's TryFrom impls return.
ErrVals == {<<"E1">>, <<"E2">>}

NoShape == <<"?">>

WireMarkers ==
    {None}
      \cup {Some(Marker(<<"_version">>, to_string(k))) : k \in 0..(MaxChain + 1)}
      \cup { Some(Marker(<<"_version">>, <<"0", "1">>)),
             Some(Marker(<<"_version">>, <<"V", "1">>)),
             Some(Marker(<<"version">>, <<"1">>)) }

WireFields ==
    {Value(TypePath(i), v) : i \in 1..MaxChain, v \in Val} \cup {Value(NoShape, 0)}

Wires == {Wire(m, f) : m \in WireMarkers, f \in WireFields}
DomainValues == {Value(DomainIdent, v) : v \in Val}
ShapeValues == {Value(TypePath(i), v) : i \in 1..MaxChain, v \in Val}
Inputs == Wires \cup DomainValues \cup ShapeValues

(***************************************************************************)
(* The derived serde impls of the envelope:                                *)
(* #[serde(tag = "_version")] with #[serde(rename = "<i>")] per variant.   *)
(***************************************************************************)
Min(S) == CHOOSE x \in S : \A y \in S : x <= y

\* Deserialize: the marker's value selects the variant whose name it is, and the
\* other fields are deserialized as that variant's type.
\* (mutant) the fields are not checked against the variant's type
rep_deserialize_unchecked_fields(rep_enum, w) ==
    IF \/ w.marker = None
       \/ unwrap(w.marker).key # rep_enum.tag
    THEN SerdeError("missing_tag", None)
    ELSE
      LET hits == {i \in DOMAIN rep_enum.variants :
                      rep_enum.variants[i].rename = unwrap(w.marker).value}
      IN  IF hits = {}
          THEN SerdeError("unknown_variant", None)
          ELSE Envelope(rep_enum.variants[Min(hits)].variant_name, w.fields)

rep_deserialize(rep_enum, w) ==
    IF \/ w.marker = None
       \/ unwrap(w.marker).key # rep_enum.tag
    THEN SerdeError("missing_tag", None)
    ELSE
      LET hits == {i \in DOMAIN rep_enum.variants :
                      rep_enum.variants[i].rename = unwrap(w.marker).value}
      IN  IF hits = {}
          THEN SerdeError("unknown_variant", None)
          ELSE LET variant == rep_enum.variants[Min(hits)]
               IN  IF w.fields.ty = variant.ty
                   THEN Envelope(variant.variant_name, w.fields)
                   ELSE SerdeError("invalid_fields", None)

\* (mutant) the rename is not honoured: the marker holds the variant's identifier
rep_serialize_variant_ident(rep_enum, e) ==
    Wire(Some(Marker(rep_enum.tag, e.variant)), e.payload)

\* Serialize: the marker with the variant's name, then the payload's fields.
rep_serialize(rep_enum, e) ==
    LET hits == {i \in DOMAIN rep_enum.variants :
                    rep_enum.variants[i].variant_name = e.variant}
    IN  Wire(Some(Marker(rep_enum.tag, rep_enum.variants[Min(hits)].rename)),
             e.payload)

(***************************************************************************)
(* The envelope's inherent items.                                          *)
(***************************************************************************)
\* pub const fn version(&self) -> u32: the first arm whose pattern matches
version(rep_enum, e) ==
    LET hits == {i \in DOMAIN rep_enum.version_match_arms :
                    rep_enum.version_match_arms[i].variant_name = e.variant}
    IN  rep_enum.version_match_arms[Min(hits)].version_num

\* pub const fn is_current(&self) -> bool
is_current(rep_enum, e) == e.variant = rep_enum.latest_variant

\* (mutant) `Self::#latest_variant(v)`: every From impl wraps in the latest variant
rep_from_version_into_latest(rep_enum, v) ==
    LET hits == {i \in DOMAIN rep_enum.from_impls : rep_enum.from_impls[i].ty = v.ty}
    IN  IF hits = {}
        THEN RustcError
        ELSE Envelope(rep_enum.latest_variant, v)

\* impl From<#ty> for #rep_name, selected by the argument's type
rep_from_version(rep_enum, v) ==
    LET hits == {i \in DOMAIN rep_enum.from_impls : rep_enum.from_impls[i].ty = v.ty}
    IN  IF hits = {}
        THEN RustcError
        ELSE Envelope(rep_enum.from_impls[Min(hits)].variant_name, v)

(***************************************************************************)
(* The integrator's impls.  They are fixed functions the macro never sees; *)
(* the model learns an impl's answer for an argument the first time it is  *)
(* invoked with it and keeps it from then on.                              *)
(*   edge k, 1 <= k < n : From/TryFrom<Vk> for Vk+1                        *)
(*   edge n             : From/TryFrom<Vn> for the domain type             *)
(*   edge 0             : From<&Domain> for Vn                             *)
(***************************************************************************)
Projection == 0
Edges == Projection..MaxChain

Unset == [tag |-> "unset"]
Returned(v) == [tag |-> "ok", val |-> v]
Failed(e) == [tag |-> "err", err |-> e]

Reflexive == [found |-> TRUE, reflexive |-> TRUE]
UserImpl(edge) == [found |-> TRUE, reflexive |-> FALSE, edge |-> edge]
NoImpl == [found |-> FALSE]

\* Trait resolution for `<src>.into()` / `.try_into()` asked for type dst.
resolve(src, dst) ==
    LET n == Len(parsed.versions)
        hops == {k \in 1..(n - 1) :
                    parsed.versions[k] = src /\ parsed.versions[k + 1] = dst}
    IN  IF src = dst THEN Reflexive
        ELSE IF hops # {} THEN UserImpl(Min(hops))
        ELSE IF n >= 1 /\ src = parsed.versions[n] /\ dst = parsed.ident THEN UserImpl(n)
        ELSE IF n >= 1 /\ src = <<"&">> \o parsed.ident /\ dst = parsed.versions[n]
             THEN UserImpl(Projection)
        ELSE NoImpl

\* What an impl may answer: a From impl returns a value, a TryFrom impl a value
\* or an error.
Answers(edge, arg, method) ==
    IF impls[edge][arg] # Unset
    THEN {impls[edge][arg]}
    ELSE {Returned(v) : v \in Val}
           \cup (IF method = "try_into?" THEN {Failed(e) : e \in ErrVals} ELSE {})

Invoke(edge, arg, method, answer) ==
    /\ answer \in Answers(edge, arg, method)
    /\ impls' = [impls EXCEPT ![edge][arg] = answer]

Call(edge, arg, answer) == [edge |-> edge, arg |-> arg, answer |-> answer]

(***************************************************************************)
(* Callers.  A caller holds one datum and applies the generated functions  *)
(* to it, one after the other; hist records each finished call.            *)
(***************************************************************************)
MaxOps == 4     \* calls a lone caller makes
PairOps == 2    \* calls each of two callers makes

Idle(datum, budget) ==
    [on |-> TRUE, datum |-> datum, hist |-> <<>>, run |-> None, budget |-> budget]
Off == [on |-> FALSE, datum |-> [kind |-> "none"], hist |-> <<>>, run |-> None,
        budget |-> 0]

Items == expansion.items
Ready(p) ==
    /\ expansion.state = "items"
    /\ procs[p].on
    /\ procs[p].run = None
    /\ Len(procs[p].hist) < procs[p].budget

Done(op, in, out, calls) == [op |-> op, in |-> in, out |-> out, calls |-> calls]

\* (mutant) the result is kept in one static slot that every caller reads its datum from
Finish_shared_slot(p, op, in, out, calls) ==
    procs' = [q \in Procs |->
                IF q = p
                THEN [ procs[p] EXCEPT
                         !.datum = out,
                         !.hist = Append(procs[p].hist, Done(op, in, out, calls)),
                         !.run = None ]
                ELSE [procs[q] EXCEPT !.datum = out]]

Finish(p, op, in, out, calls) ==
    procs' = [procs EXCEPT ![p] =
                [ procs[p] EXCEPT
                    !.datum = out,
                    !.hist = Append(procs[p].hist, Done(op, in, out, calls)),
                    !.run = None ]]

Init ==
    /\ parsed \in ParsedInputs
    /\ expansion = [state |-> "pending"]
    /\ impls = [e \in Edges |-> [v \in Val |-> Unset]]
    /\ \E d \in Inputs : procs = [p \in Procs |-> IF p = 1 THEN Idle(d, MaxOps) ELSE Off]

\* #[proc_macro_derive(Versioned, attributes(versioned))]
Derive ==
    /\ expansion.state = "pending"
    /\ expansion' = receiver_generate(parsed)
    /\ UNCHANGED <<parsed, impls, procs>>

\* validate(parse_input(..)) and then emit::generate
ValidateAndEmit ==
    /\ expansion.state = "pending"
    /\ expansion' = validate_and_generate(parsed)
    /\ UNCHANGED <<parsed, impls, procs>>

\* serde_json::from_str::<Envelope>(wire)
Decode(p) ==
    /\ Ready(p)
    /\ procs[p].datum.kind = "wire"
    /\ Finish(p, "decode", procs[p].datum,
              rep_deserialize(Items.rep_enum, procs[p].datum), <<>>)
    /\ UNCHANGED <<parsed, expansion, impls>>

\* serde_json::to_string(&envelope)
Encode(p) ==
    /\ Ready(p)
    /\ procs[p].datum.kind = "env"
    /\ Finish(p, "encode", procs[p].datum,
              rep_serialize(Items.rep_enum, procs[p].datum), <<>>)
    /\ UNCHANGED <<parsed, expansion, impls>>

\* Envelope::from(v) for a version struct v
Wrap(p) ==
    /\ Ready(p)
    /\ procs[p].datum.kind = "value"
    /\ procs[p].datum.ty \in {Items.rep_enum.from_impls[i].ty :
                                 i \in DOMAIN Items.rep_enum.from_impls}
    /\ Finish(p, "wrap", procs[p].datum,
              rep_from_version(Items.rep_enum, procs[p].datum), <<>>)
    /\ UNCHANGED <<parsed, expansion, impls>>

(***************************************************************************)
(* impl From<Envelope> for Domain / impl TryFrom<Envelope> for Domain.     *)
(* `match rep { ... }` takes the first arm whose pattern matches and binds *)
(* the payload to v; the arm's chain then runs one conversion at a time.   *)
(***************************************************************************)
rep_to_domain_enter(conversions, e) ==
    LET arms == conversions.rep_to_domain.arms
        hits == {i \in DOMAIN arms : arms[i].variant_name = e.variant}
    IN  IF hits = {}
        THEN [matched |-> FALSE]
        ELSE [ matched |-> TRUE,
               cur |-> e.payload,
               rest |-> arms[Min(hits)].chain.conversions,
               tail |-> arms[Min(hits)].chain.tail ]

Running(op, in, entered, then) ==
    Some([ op |-> op, in |-> in, cur |-> entered.cur, rest |-> entered.rest,
           tail |-> entered.tail, then |-> then, calls |-> <<>> ])

\* Domain::from(envelope) / Domain::try_from(envelope): entering the match
ToDomainEnter(p) ==
    /\ Ready(p)
    /\ procs[p].datum.kind = "env"
    /\ LET entered == rep_to_domain_enter(Items.conversions, procs[p].datum)
       IN  IF entered.matched
           THEN procs' = [procs EXCEPT ![p].run =
                            Running("to_domain", procs[p].datum, entered, "return")]
           ELSE Finish(p, "to_domain", procs[p].datum, RustcError, <<>>)
    /\ UNCHANGED <<parsed, expansion, impls>>

\* What the caller of the conversion makes of its result.
\*   "return"           the result itself
\*   "Ok"               Ok(<envelope>.into())
\*   "map_err(custom)"  <envelope>.try_into().map_err(serde::de::Error::custom)
\* (mutant) `.unwrap_or_default()`: a failed conversion yields a default domain value
after_defaults_on_error(then, result) ==
    IF result.kind = "err" THEN Value(DomainIdent, 0) ELSE result

after(then, result) ==
    IF then = "map_err(custom)" /\ result.kind = "err"
    THEN SerdeError("custom", Some(result.err))
    ELSE result

\* (mutant) `.map_err(|e| e.context(stringify!(#ty)))?`: the step's target is put before the error
bind_next_adds_context(method, ty, answer) ==
    IF answer.tag = "ok"
    THEN [returns |-> FALSE, next |-> Value(ty, answer.val)]
    ELSE [returns |-> TRUE, result |-> MigrationErr(ty \o answer.err)]

\* (mutant) `.map_err(|_| Error::default())?`: the edge's error is replaced by a fixed one
bind_next_generic_error(method, ty, answer) ==
    IF answer.tag = "ok"
    THEN [returns |-> FALSE, next |-> Value(ty, answer.val)]
    ELSE [returns |-> TRUE, result |-> MigrationErr(<<"E1">>)]

\* (mutant) `.try_into().unwrap_or_default()`: the error is dropped, the chain goes on
bind_next_swallows_error(method, ty, answer) ==
    IF answer.tag = "ok"
    THEN [returns |-> FALSE, next |-> Value(ty, answer.val)]
    ELSE [returns |-> FALSE, next |-> Value(ty, 0)]

\* `let next: #ty = <answer>;` for an `.into()` answer, and for a `.try_into()?`
\* answer the value, or the function returning Err(From::from(e)) at once.  The
\* impls' error type is the definition's error type, so From::from is From<T> for T.
bind_next(method, ty, answer) ==
    IF answer.tag = "ok"
    THEN [returns |-> FALSE, next |-> Value(ty, answer.val)]
    ELSE [returns |-> TRUE, result |-> MigrationErr(answer.err)]

\* One conversion of the running chain: `let next: T = <expr>.into();` or
\* `let next: T = <expr>.try_into()?;`.  An error leaves the function at once;
\* after the last conversion the chain's tail (`next` / `Ok(next)`) is the result.
ConvertStep(p) ==
    /\ expansion.state = "items"
    /\ procs[p].run # None
    /\ LET r == unwrap(procs[p].run)
           c == Head(r.rest)
           impl == resolve(r.cur.ty, c.ty)
           go(next, calls) ==
               IF Len(r.rest) = 1
               THEN Finish(p, r.op, r.in, after(r.then, next), calls)
               ELSE procs' = [procs EXCEPT ![p].run =
                                Some([r EXCEPT !.cur = next, !.rest = Tail(r.rest),
                                               !.calls = calls])]
       IN  IF ~impl.found
           THEN /\ Finish(p, r.op, r.in, RustcError, r.calls)
                /\ UNCHANGED impls
           ELSE IF impl.reflexive
           THEN /\ go(r.cur, r.calls)
                /\ UNCHANGED impls
           ELSE \E answer \in Answers(impl.edge, r.cur.val, c.method) :
                   /\ Invoke(impl.edge, r.cur.val, c.method, answer)
                   /\ LET calls == Append(r.calls, Call(impl.edge, r.cur.val, answer))
                          bound == bind_next(c.method, c.ty, answer)
                      IN  IF bound.returns
                          THEN Finish(p, r.op, r.in, after(r.then, bound.result), calls)
                          ELSE go(bound.next, calls)
    /\ UNCHANGED <<parsed, expansion>>

(***************************************************************************)
(* impl From<&Domain> for Envelope:                                        *)
(*     let latest = #latest_version_type::from(domain);                    *)
(*     Self::#latest_variant(latest)                                       *)
(***************************************************************************)
domain_to_rep(conversions, answer) ==
    Envelope(conversions.domain_to_rep.latest_variant,
             Value(conversions.domain_to_rep.latest_version_type, answer.val))

IsDomainRef(conversions, d) ==
    /\ d.kind = "value"
    /\ conversions.domain_to_rep.from = <<"&">> \o d.ty

\* Envelope::from(&domain)
FromDomain(p) ==
    /\ Ready(p)
    /\ IsDomainRef(Items.conversions, procs[p].datum)
    /\ LET d == procs[p].datum
           impl == resolve(<<"&">> \o d.ty, Items.conversions.domain_to_rep.latest_version_type)
       IN  IF ~impl.found \/ impl.reflexive
           THEN /\ Finish(p, "from_domain", d, RustcError, <<>>)
                /\ UNCHANGED impls
           ELSE \E answer \in Answers(impl.edge, d.val, "from") :
                   /\ Invoke(impl.edge, d.val, "from", answer)
                   /\ Finish(p, "from_domain", d,
                             domain_to_rep(Items.conversions, answer),
                             <<Call(impl.edge, d.val, answer)>>)
    /\ UNCHANGED <<parsed, expansion>>

(***************************************************************************)
(* Transparent serde: Serialize and Deserialize for the domain type.       *)
(***************************************************************************)
\* serde_json::to_string(&domain):  #rep_name::from(self).serialize(__serializer)
Serialize(p) ==
    /\ Ready(p)
    /\ Items.transparent_serde # None
    /\ IsDomainRef(Items.conversions, procs[p].datum)
    /\ LET d == procs[p].datum
           body == unwrap(Items.transparent_serde).serialize_impl.body
           impl == resolve(<<"&">> \o d.ty, Items.conversions.domain_to_rep.latest_version_type)
       IN  IF ~impl.found \/ impl.reflexive \/ body[1] # "from(self)"
           THEN /\ Finish(p, "serialize", d, RustcError, <<>>)
                /\ UNCHANGED impls
           ELSE \E answer \in Answers(impl.edge, d.val, "from") :
                   /\ Invoke(impl.edge, d.val, "from", answer)
                   /\ Finish(p, "serialize", d,
                             IF body[2] = "serialize"
                             THEN rep_serialize(Items.rep_enum,
                                                domain_to_rep(Items.conversions, answer))
                             ELSE RustcError,
                             <<Call(impl.edge, d.val, answer)>>)
    /\ UNCHANGED <<parsed, expansion>>

\* serde_json::from_str::<Domain>(wire):
\*     Ok(#rep_name::deserialize(__deserializer)?.into())
\*     #rep_name::deserialize(__deserializer)?.try_into().map_err(serde::de::Error::custom)
DeserializeEnter(p) ==
    /\ Ready(p)
    /\ Items.transparent_serde # None
    /\ procs[p].datum.kind = "wire"
    /\ LET w == procs[p].datum
           body == unwrap(Items.transparent_serde).deserialize_impl.body
           e == rep_deserialize(Items.rep_enum, w)
           entered == rep_to_domain_enter(Items.conversions, e)
           callable ==
               \/ body[2] = "into" /\ Items.conversions.rep_to_domain.trait = "From"
               \/ body[2] = "try_into"
       IN  IF e.kind = "err"
           THEN Finish(p, "deserialize", w, e, <<>>)
           ELSE IF callable /\ entered.matched
           THEN procs' = [procs EXCEPT ![p].run =
                            Running("deserialize", w, entered, body[3])]
           ELSE Finish(p, "deserialize", w, RustcError, <<>>)
    /\ UNCHANGED <<parsed, expansion, impls>>

Next ==
    \/ Derive
    \/ ValidateAndEmit
    \/ \E p \in Procs :
          \/ Decode(p)
          \/ Encode(p)
          \/ Wrap(p)
          \/ ToDomainEnter(p)
          \/ ConvertStep(p)
          \/ FromDomain(p)
          \/ Serialize(p)
          \/ DeserializeEnter(p)

Spec == Init /\ [][Next]_vars

\* Two callers given the same input, each free to take its own path through the
\* generated functions.
InitPair ==
    /\ parsed \in ParsedInputs
    /\ expansion = [state |-> "pending"]
    /\ impls = [e \in Edges |-> [v \in Val |-> Unset]]
    /\ \E d \in Inputs :
          procs = [p \in Procs |-> IF p <= 2 THEN Idle(d, PairOps) ELSE Off]

SpecPair == InitPair /\ [][Next]_vars

(***************************************************************************)
(* Vocabulary of the properties.                                           *)
(***************************************************************************)
Compiled == expansion.state = "items"
ChainLen == Len(parsed.versions)
FallibleMode == Compiled /\ Items.conversions.rep_to_domain.trait = "TryFrom"
Transparent == Compiled /\ Items.transparent_serde # None

\* the finished calls of caller p, with their position in its history
Finished(p) == {<<p, j>> : j \in 1..Len(procs[p].hist)}
AllFinished == UNION {Finished(p) : p \in Procs}
H(c) == procs[c[1]].hist[c[2]]
HasNext(c) == c[2] < Len(procs[c[1]].hist)
NextOf(c) == procs[c[1]].hist[c[2] + 1]

\* the chain position of a shape value, by its type
ShapeIndex(v) == CHOOSE i \in 1..ChainLen : parsed.versions[i] = v.ty
IsShape(v) == \E i \in 1..ChainLen : parsed.versions[i] = v.ty

\* every value of the generated enum
AllEnvelopes ==
    {Envelope(Items.rep_enum.variants[i].variant_name,
              Value(Items.rep_enum.variants[i].ty, v)) :
        i \in DOMAIN Items.rep_enum.variants, v \in Val}

\* The supplied edges applied by hand, one hop at a time: edge k to the value,
\* edge k+1 to what it returned, ..., edge n last.  "unset" when a hop it needs
\* has never been invoked.
RECURSIVE ManualHops(_, _, _)
ManualHops(k, n, v) ==
    IF k > n
    THEN Returned(v)
    ELSE LET a == impls[k][v]
         IN  IF a.tag = "ok" THEN ManualHops(k + 1, n, a.val) ELSE a

EdgesOf(calls) == [j \in 1..Len(calls) |-> calls[j].edge]

(***************************************************************************)
(* C1: converting the envelope variant i holding v to the domain type      *)
(* gives, when no edge fails, exactly the value of applying the supplied   *)
(* edges by hand: Vi->Vi+1, ..., Vn-1->Vn, then Vn->Domain.                *)
(***************************************************************************)
C1_ToDomainIsManualComposition ==
    \A c \in AllFinished :
        H(c).op = "to_domain" =>
            /\ IsShape(H(c).in.payload)
            /\ LET m == ManualHops(ShapeIndex(H(c).in.payload), ChainLen,
                                   H(c).in.payload.val)
               IN  /\ m.tag # "unset"
                   /\ m.tag = "ok" => H(c).out = Value(parsed.ident, m.val)
                   /\ ~FallibleMode => m.tag = "ok"

C1_Witness ==
    \E c \in AllFinished :
        /\ H(c).op = "to_domain"
        /\ FallibleMode
        /\ ChainLen = MaxChain
        /\ H(c).in.variant = format_ident_V(1)
        /\ H(c).out.kind = "value"
        /\ Len(H(c).calls) = MaxChain

(***************************************************************************)
(* C2: in fallible mode, when an edge of the chain returns an error, the   *)
(* conversion returns that very error at once: the failing invocation is   *)
(* the last one, no later edge is invoked, and the result is that error    *)
(* alone.                                                                  *)
(***************************************************************************)
C2_FailFast ==
    /\ \A c \in AllFinished :
          H(c).op = "to_domain" =>
              /\ \A j \in 1..Len(H(c).calls) :
                    H(c).calls[j].answer.tag = "err" =>
                        /\ j = Len(H(c).calls)
                        /\ H(c).out = MigrationErr(H(c).calls[j].answer.err)
              /\ LET m == ManualHops(ShapeIndex(H(c).in.payload), ChainLen,
                                     H(c).in.payload.val)
                 IN  m.tag = "err" => H(c).out = MigrationErr(m.err)
    /\ \A p \in Procs :
          procs[p].run # None =>
              \A j \in 1..Len(unwrap(procs[p].run).calls) :
                  unwrap(procs[p].run).calls[j].answer.tag = "ok"

C2_Witness ==
    \E c \in AllFinished :
        /\ H(c).op = "to_domain"
        /\ ChainLen = MaxChain
        /\ H(c).in.variant = format_ident_V(1)
        /\ EdgesOf(H(c).calls) = <<1>>
        /\ H(c).calls[1].answer.tag = "err"
        /\ H(c).out.kind = "err"

(***************************************************************************)
(* C3: from_domain(&d) produces the variant at index n whatever d holds:   *)
(* its version() is n = CURRENT and is_current() is true.                  *)
(***************************************************************************)
C3_FromDomainIsCurrent ==
    \A c \in AllFinished :
        H(c).op = "from_domain" =>
            /\ H(c).out \in AllEnvelopes
            /\ H(c).out.variant = Items.rep_enum.variants[ChainLen].variant_name
            /\ version(Items.rep_enum, H(c).out) = ChainLen
            /\ Items.rep_enum.CURRENT = ChainLen
            /\ is_current(Items.rep_enum, H(c).out)

C3_Witness ==
    \E c \in AllFinished :
        /\ H(c).op = "from_domain"
        /\ ChainLen = MaxChain
        /\ H(c).in.val = MaxVal
        /\ H(c).out.kind = "env"

(***************************************************************************)
(* C4 (as stated): to_domain(from_domain(d)) equals d for every domain     *)
(* value d, going through the latest version only.                         *)
(***************************************************************************)
C4_RoundTripIsIdentity ==
    \A c \in AllFinished :
        (H(c).op = "from_domain" /\ HasNext(c) /\ NextOf(c).op = "to_domain") =>
            /\ NextOf(c).out = H(c).in
            /\ EdgesOf(NextOf(c).calls) = <<ChainLen>>

(***************************************************************************)
(* C4 (amended): to_domain(from_domain(d)) goes through the latest version *)
(* only: one invocation of the Domain->Vn projection, then one invocation  *)
(* of the Vn->Domain edge on the projected value, and no Vi->Vi+1 hop.     *)
(* Its result is what that edge returns; it is d exactly when the supplied *)
(* Vn->Domain edge maps the projection of d back to d.                     *)
(***************************************************************************)
C4_RoundTripThroughLatestOnly ==
    \A c \in AllFinished :
        (H(c).op = "from_domain" /\ HasNext(c) /\ NextOf(c).op = "to_domain") =>
            LET d == H(c).in
                back == NextOf(c)
            IN  /\ EdgesOf(H(c).calls) = <<Projection>>
                /\ H(c).calls[1].arg = d.val
                /\ back.in = H(c).out
                /\ EdgesOf(back.calls) = <<ChainLen>>
                /\ back.calls[1].arg = H(c).calls[1].answer.val
                /\ back.calls[1].answer.tag = "ok" =>
                       back.out = Value(parsed.ident, back.calls[1].answer.val)
                /\ back.calls[1].answer.tag = "err" =>
                       back.out = MigrationErr(back.calls[1].answer.err)
                /\ back.out = d <=>
                       impls[ChainLen][impls[Projection][d.val].val] = Returned(d.val)

C4_Witness ==
    \E c \in AllFinished :
        /\ H(c).op = "from_domain" /\ HasNext(c) /\ NextOf(c).op = "to_domain"
        /\ ChainLen = MaxChain
        /\ FallibleMode
        /\ NextOf(c).out = H(c).in

(***************************************************************************)
(* C5: decoding wire data whose "_version" marker is absent or is not one  *)
(* of "1".."n" fails with a decode error; it yields no envelope.           *)
(***************************************************************************)
ValidMarkers == {Some(Marker(<<"_version">>, to_string(i))) : i \in 1..ChainLen}

C5_UnknownTagFailsToDecode ==
    \A c \in AllFinished :
        (H(c).op = "decode" /\ H(c).in.marker \notin ValidMarkers) =>
            /\ H(c).out.kind = "err"
            /\ H(c).out.class = "serde"
            /\ H(c).out \notin AllEnvelopes
            /\ H(c).calls = <<>>

C5_Witness ==
    \E c \in AllFinished :
        /\ H(c).op = "decode"
        /\ ChainLen >= 2
        /\ H(c).in.marker = Some(Marker(<<"_version">>, to_string(ChainLen + 1)))
        /\ H(c).in.fields.ty = parsed.versions[ChainLen]
        /\ H(c).out.kind = "err"

(***************************************************************************)
(* C6: version() is total and returns i for the variant at chain position  *)
(* i; an envelope decoded from wire data tagged i reports version() = i.   *)
(***************************************************************************)
C6_VersionIsPosition ==
    Compiled =>
        /\ DOMAIN Items.rep_enum.variants = 1..ChainLen
        /\ \A i \in 1..ChainLen : \A v \in Val :
              LET e == Envelope(Items.rep_enum.variants[i].variant_name,
                                Value(Items.rep_enum.variants[i].ty, v))
              IN  /\ \E a \in DOMAIN Items.rep_enum.version_match_arms :
                        Items.rep_enum.version_match_arms[a].variant_name = e.variant
                  /\ version(Items.rep_enum, e) = i
        /\ \A c \in AllFinished :
              (H(c).op = "decode" /\ H(c).out.kind = "env") =>
                  \E i \in 1..ChainLen :
                      /\ unwrap(H(c).in.marker).value = to_string(i)
                      /\ version(Items.rep_enum, H(c).out) = i

C6_Witness ==
    \E c \in AllFinished :
        /\ H(c).op = "decode"
        /\ H(c).out.kind = "env"
        /\ ChainLen = MaxChain
        /\ unwrap(H(c).in.marker).value = to_string(2)
        /\ version(Items.rep_enum, H(c).out) = 2

(***************************************************************************)
(* C7: for every envelope e, is_current(e) holds if and only if            *)
(* version(e) = n, the chain length, which is the constant CURRENT.        *)
(***************************************************************************)
C7_IsCurrentIffVersionIsCurrent ==
    Compiled =>
        /\ Items.rep_enum.CURRENT = ChainLen
        /\ \A e \in AllEnvelopes :
              is_current(Items.rep_enum, e) <=> version(Items.rep_enum, e) = ChainLen
        /\ \A p \in Procs :
              procs[p].datum.kind = "env" =>
                  /\ procs[p].datum \in AllEnvelopes
                  /\ is_current(Items.rep_enum, procs[p].datum)
                        <=> version(Items.rep_enum, procs[p].datum) = Items.rep_enum.CURRENT

C7_Witness ==
    \E c, k \in AllFinished :
        /\ ChainLen = MaxChain
        /\ H(c).op = "decode" /\ H(c).out.kind = "env"
        /\ ~is_current(Items.rep_enum, H(c).out)
        /\ H(k).op = "from_domain" /\ H(k).out.kind = "env"
        /\ is_current(Items.rep_enum, H(k).out)
        /\ procs[k[1]].datum = H(k).out

(***************************************************************************)
(* C8: with transparent bridging, serializing a domain value d produces    *)
(* exactly the wire data of encoding from_domain(d): the "_version" marker *)
(* is "n" and the other fields are those of the latest shape projected     *)
(* from d.                                                                 *)
(***************************************************************************)
C8_SerializeIsEncodeOfFromDomain ==
    \A c \in AllFinished :
        H(c).op = "serialize" =>
            /\ Transparent
            /\ H(c).out.kind = "wire"
            /\ H(c).out.marker = Some(Marker(<<"_version">>, to_string(ChainLen)))
            /\ EdgesOf(H(c).calls) = <<Projection>>
            /\ H(c).out.fields =
                  Value(parsed.versions[ChainLen], impls[Projection][H(c).in.val].val)
            /\ \A k \in AllFinished :
                  ( /\ H(k).op = "from_domain" /\ H(k).in = H(c).in
                    /\ HasNext(k) /\ NextOf(k).op = "encode" ) =>
                      /\ NextOf(k).in = H(k).out
                      /\ H(c).out = NextOf(k).out

C8_Witness ==
    \E c, k \in AllFinished :
        /\ ChainLen = MaxChain
        /\ H(c).op = "serialize"
        /\ H(k).op = "from_domain" /\ H(k).in = H(c).in
        /\ HasNext(k) /\ NextOf(k).op = "encode"
        /\ H(c).out = NextOf(k).out
        /\ H(c).out.kind = "wire"

(***************************************************************************)
(* C9: with transparent bridging, deserializing wire data of any version   *)
(* into the domain type gives what decoding the envelope and then calling  *)
(* to_domain gives: the same migrated domain value through the same edge   *)
(* invocations (a failure of the explicit path shows as the failure of the *)
(* transparent one: the decode error itself, the migration error wrapped). *)
(***************************************************************************)
C9_DeserializeIsToDomainOfDecode ==
    \A c, k \in AllFinished :
        (H(c).op = "deserialize" /\ H(k).op = "decode" /\ H(k).in = H(c).in) =>
            /\ Transparent
            /\ H(k).out.kind = "err" => (H(c).out = H(k).out /\ H(c).calls = <<>>)
            /\ H(k).out.kind # "err" => H(c).out.kind \in {"value", "err"}
            /\ (HasNext(k) /\ NextOf(k).op = "to_domain") =>
                  /\ NextOf(k).in = H(k).out
                  /\ H(c).calls = NextOf(k).calls
                  /\ NextOf(k).out.kind = "value" => H(c).out = NextOf(k).out
                  /\ NextOf(k).out.kind = "err" =>
                        H(c).out = SerdeError("custom", Some(NextOf(k).out.err))
                  /\ NextOf(k).out.kind \in {"value", "err"}

C9_Witness ==
    \E c, k \in AllFinished :
        /\ ChainLen = MaxChain
        /\ H(c).op = "deserialize" /\ H(k).op = "decode" /\ H(k).in = H(c).in
        /\ H(c).in.marker = Some(Marker(<<"_version">>, to_string(1)))
        /\ HasNext(k) /\ NextOf(k).op = "to_domain"
        /\ NextOf(k).out.kind = "value"
        /\ H(c).out = NextOf(k).out
        /\ Len(H(c).calls) = MaxChain

(***************************************************************************)
(* C10: with transparent bridging in fallible mode, when decoding succeeds *)
(* and a migration edge fails, deserializing the domain type fails with    *)
(* the serialization layer's own error, a custom error wrapping the        *)
(* migration error; every failure of deserialize, decode or migration, is  *)
(* of that one error type and no domain value is returned.                 *)
(***************************************************************************)
C10_MigrationErrorBecomesSerdeError ==
    \A c \in AllFinished :
        H(c).op = "deserialize" =>
            /\ \A j \in 1..Len(H(c).calls) :
                  H(c).calls[j].answer.tag = "err" =>
                      /\ FallibleMode
                      /\ H(c).out = SerdeError("custom", Some(H(c).calls[j].answer.err))
            /\ H(c).out.kind = "err" => H(c).out.class = "serde"
            /\ H(c).out.kind \in {"err", "value"}

C10_Witness ==
    \E c \in AllFinished :
        /\ H(c).op = "deserialize"
        /\ ChainLen = MaxChain
        /\ EdgesOf(H(c).calls) = <<1, 2>>
        /\ H(c).calls[2].answer.tag = "err"
        /\ H(c).out.kind = "err"
        /\ H(c).out.what = "custom"

(***************************************************************************)
(* Vocabulary of the definition-time claims.                               *)
(***************************************************************************)
Expanded == expansion.state # "pending"
Rejected == expansion.state = "compile_error"
ModeGiven == unwrap_or(parsed.mode, <<"(omitted)">>)

(***************************************************************************)
(* C11: a definition whose chain is empty is rejected at definition time   *)
(* with the error "chain must contain at least one version type",          *)
(* whatever its mode and error attributes are.                             *)
(***************************************************************************)
C11_EmptyChainRejectedWithChainError ==
    (Expanded /\ ChainLen = 0) =>
        /\ Rejected
        /\ expansion.error = <<"chain must contain at least one version type">>

(***************************************************************************)
(* C12: a definition with a non-empty chain whose mode is fallible, given  *)
(* explicitly or by default, and that supplies no error type is rejected   *)
(* with the error "fallible mode requires 'error' attribute".              *)
(***************************************************************************)
C12_FallibleWithoutErrorRejected ==
    ( /\ Expanded /\ ChainLen >= 1
      /\ parsed.mode \in {None, Some(<<"fallible">>)}
      /\ parsed.error = None ) =>
        /\ Rejected
        /\ expansion.error = <<"fallible mode requires 'error' attribute">>

C12_Witness ==
    /\ Rejected /\ ChainLen = MaxChain
    /\ parsed.mode = None /\ parsed.error = None
    /\ expansion.error = <<"fallible mode requires 'error' attribute">>

(***************************************************************************)
(* C13: a definition with a non-empty chain whose mode keyword is neither  *)
(* "infallible" nor "fallible" is rejected with an error naming the        *)
(* keyword; it is never taken for one of the two modes.                    *)
(***************************************************************************)
C13_UnknownModeRejected ==
    ( /\ Expanded /\ ChainLen >= 1
      /\ ModeGiven \notin {<<"(omitted)">>, <<"infallible">>, <<"fallible">>} ) =>
        /\ Rejected
        /\ expansion.error =
              <<"invalid mode '">> \o ModeGiven
                  \o <<"', expected 'infallible' or 'fallible'">>
        /\ \A c \in AllFinished : FALSE

C13_Witness ==
    /\ Rejected /\ ChainLen = MaxChain
    /\ parsed.mode = Some(<<"total">>) /\ parsed.error # None
    /\ expansion.error =
          <<"invalid mode '", "total", "', expected 'infallible' or 'fallible'">>

\* the methods the chain of every arm of the envelope -> domain conversion calls
ChainMethods ==
    UNION { {Items.conversions.rep_to_domain.arms[i].chain.conversions[j].method :
                j \in DOMAIN Items.conversions.rep_to_domain.arms[i].chain.conversions} :
            i \in DOMAIN Items.conversions.rep_to_domain.arms }

(***************************************************************************)
(* C14: when the mode attribute is omitted the definition is fallible:     *)
(* with an error type supplied it validates to fallible mode carrying that *)
(* error type and the generated conversion is TryFrom<Envelope> for the    *)
(* domain type with that type as its Error, the same items as for          *)
(* mode = "fallible".                                                      *)
(***************************************************************************)
C14_OmittedModeIsFallible ==
    ( /\ Expanded /\ ChainLen >= 1
      /\ parsed.mode = None /\ parsed.error # None ) =>
        /\ Compiled
        /\ Items.conversions.rep_to_domain.trait = "TryFrom"
        /\ Items.conversions.rep_to_domain.error = parsed.error
        /\ ChainMethods = {"try_into?"}
        /\ validate(parsed).ok
        /\ validate(parsed).value.mode =
              [kind |-> "Fallible", error |-> unwrap(parsed.error)]
        /\ LET written == [parsed EXCEPT !.mode = Some(<<"fallible">>)]
           IN  /\ expansion = receiver_generate(written)
               /\ expansion = validate_and_generate(written)

C14_Witness ==
    /\ Compiled /\ ChainLen = MaxChain
    /\ parsed.mode = None /\ parsed.error = Some(ErrorPath)
    /\ Items.conversions.rep_to_domain.error = Some(ErrorPath)
    /\ \E c \in AllFinished : H(c).op = "to_domain" /\ H(c).out.kind = "err"

(***************************************************************************)
(* C15: the envelope type's name is the name given by the rep attribute    *)
(* when there is one, and otherwise the domain type's name followed by     *)
(* "Versions".                                                             *)
(***************************************************************************)
C15_EnvelopeName ==
    LET expected == IF parsed.representation = None
                    THEN parsed.ident \o <<"Versions">>
                    ELSE unwrap(parsed.representation)
    IN  /\ Compiled =>
              /\ Items.rep_enum.name = expected
              /\ Items.conversions.rep_to_domain.from = expected
              /\ Items.conversions.domain_to_rep.for = expected
              /\ Transparent =>
                    /\ unwrap(Items.transparent_serde).serialize_impl.via = expected
                    /\ unwrap(Items.transparent_serde).deserialize_impl.via = expected
        /\ validate(parsed).ok => validate(parsed).value.rep_ident = expected

C15_Witness ==
    /\ Compiled /\ Transparent
    /\ parsed.representation = None
    /\ Items.rep_enum.name = <<"Account", "Versions">>
    /\ \E c \in AllFinished : H(c).op = "decode" /\ H(c).out.kind = "env"

(***************************************************************************)
(* C16: in infallible mode no error type is needed or used: a definition   *)
(* with mode "infallible" and a non-empty chain is accepted with or        *)
(* without an error type, and the generated items are the same in both     *)
(* cases: From<Envelope> for the domain type, no TryFrom, no error type.   *)
(***************************************************************************)
C16_InfallibleIgnoresErrorType ==
    ( /\ Expanded /\ ChainLen >= 1
      /\ parsed.mode = Some(<<"infallible">>) ) =>
        /\ Compiled
        /\ Items.conversions.rep_to_domain.trait = "From"
        /\ Items.conversions.rep_to_domain.error = None
        /\ ChainMethods = {"into"}
        /\ LET without == [parsed EXCEPT !.error = None]
               with == [parsed EXCEPT !.error = Some(ErrorPath)]
           IN  /\ expansion = receiver_generate(without)
               /\ expansion = receiver_generate(with)
               /\ expansion = validate_and_generate(without)
               /\ expansion = validate_and_generate(with)

C16_Witness ==
    /\ Compiled /\ ChainLen = MaxChain
    /\ parsed.mode = Some(<<"infallible">>) /\ parsed.error = Some(ErrorPath)
    /\ Items.conversions.rep_to_domain.trait = "From"
    /\ \E c \in AllFinished :
          /\ H(c).op = "to_domain" /\ H(c).out.kind = "value"
          /\ Len(H(c).calls) = MaxChain

\* the marker of the current version, as it stands on the wire
CurrentMarker == Some(Marker(<<"_version">>, to_string(ChainLen)))

\* a caller that started from wire data and used only the four explicit operations
ExplicitFromWire(p) ==
    /\ Len(procs[p].hist) >= 1
    /\ procs[p].hist[1].in.kind = "wire"
    /\ \A j \in 1..Len(procs[p].hist) :
          procs[p].hist[j].op \in {"decode", "to_domain", "from_domain", "encode"}

(***************************************************************************)
(* C17 (as claimed): after any sequence of decode, to_domain, from_domain  *)
(* and encode operations starting from wire data of any version, every     *)
(* piece of wire data written carries tag n; no output carries a tag below *)
(* n.                                                                      *)
(***************************************************************************)
C17_NoOutputBelowCurrent ==
    \A p \in Procs :
        ExplicitFromWire(p) =>
            \A j \in 1..Len(procs[p].hist) :
                procs[p].hist[j].op = "encode" =>
                    procs[p].hist[j].out.marker = CurrentMarker

(***************************************************************************)
(* C17 (amended): wire data written from a domain value always carries tag *)
(* n: the encoding of from_domain(d), and the transparent serialization of *)
(* d.  Encoding an envelope writes the tag of the variant it holds, so an  *)
(* envelope that was decoded (or wrapped) and never converted is written   *)
(* back with its own, possibly older, tag.                                 *)
(***************************************************************************)
C17_DomainIsWrittenAsCurrent ==
    \A c \in AllFinished :
        /\ (H(c).op = "serialize" /\ H(c).out.kind = "wire") =>
              H(c).out.marker = CurrentMarker
        /\ (H(c).op = "from_domain" /\ HasNext(c) /\ NextOf(c).op = "encode") =>
              /\ NextOf(c).in = H(c).out
              /\ NextOf(c).out.marker = CurrentMarker
        /\ H(c).op = "encode" =>
              H(c).out.marker =
                  Some(Marker(<<"_version">>,
                              to_string(version(Items.rep_enum, H(c).in))))

C17_Witness ==
    \E p \in Procs :
        /\ ChainLen = MaxChain
        /\ ExplicitFromWire(p)
        /\ Len(procs[p].hist) = 4
        /\ procs[p].hist[1].in.marker = Some(Marker(<<"_version">>, to_string(1)))
        /\ procs[p].hist[1].op = "decode"
        /\ procs[p].hist[2].op = "to_domain"
        /\ procs[p].hist[3].op = "from_domain"
        /\ procs[p].hist[4].op = "encode"
        /\ procs[p].hist[4].out.marker = CurrentMarker

\* the version value a conversion to the domain type starts from
StartOf(h) == IF h.in.kind = "env" THEN h.in.payload ELSE h.in.fields

(***************************************************************************)
(* C18: a conversion to the domain type either returns a domain value, and *)
(* then every edge from the starting index through Vn->Domain was invoked  *)
(* and succeeded, or it returns an error and no domain value; a chain that *)
(* stopped partway never yields a domain value, and no domain value exists *)
(* while the chain is still running.                                       *)
(***************************************************************************)
C18_NoDomainFromPartialChain ==
    /\ \A c \in AllFinished :
          H(c).op \in {"to_domain", "deserialize"} =>
              /\ H(c).out.kind \in {"value", "err"}
              /\ H(c).out.kind = "value" =>
                    LET i == ShapeIndex(StartOf(H(c)))
                        calls == H(c).calls
                    IN  /\ H(c).out.ty = parsed.ident
                        /\ EdgesOf(calls) = [j \in 1..(ChainLen - i + 1) |-> i + j - 1]
                        /\ \A j \in 1..Len(calls) : calls[j].answer.tag = "ok"
                        /\ H(c).out.val = calls[Len(calls)].answer.val
              /\ ( \/ \E j \in 1..Len(H(c).calls) : H(c).calls[j].answer.tag = "err"
                   \/ ( /\ IsShape(StartOf(H(c)))
                        /\ Len(H(c).calls) < ChainLen - ShapeIndex(StartOf(H(c))) + 1 ) )
                    => H(c).out.kind = "err"
    /\ \A p \in Procs :
          procs[p].run # None =>
              /\ unwrap(procs[p].run).cur.ty # parsed.ident
              /\ procs[p].datum = unwrap(procs[p].run).in

C18_Witness ==
    \E c \in AllFinished :
        /\ ChainLen = MaxChain
        /\ H(c).op \in {"to_domain", "deserialize"}
        /\ IsShape(StartOf(H(c))) /\ ShapeIndex(StartOf(H(c))) = 1
        /\ Len(H(c).calls) = 2
        /\ H(c).calls[1].answer.tag = "ok"
        /\ H(c).calls[2].answer.tag = "err"
        /\ H(c).out.kind = "err"

\* The failure the specification describes: the failed step's index beside the
\* step's own error.
MigrationFailed(step_index, underlying_error) ==
    [kind |-> "err", class |-> "migration", step |-> step_index, err |-> underlying_error]

\* a finished conversion to the domain type whose last invoked edge failed
FailedAt(c) ==
    /\ H(c).op = "to_domain"
    /\ Len(H(c).calls) >= 1
    /\ H(c).calls[Len(H(c).calls)].answer.tag = "err"
FailedCall(c) == H(c).calls[Len(H(c).calls)]

(***************************************************************************)
(* C19 (as claimed): in fallible mode the error returned by to_domain      *)
(* identifies the index of the step that failed together with that step's  *)
(* underlying error: MigrationFailed(step_index, underlying_error).        *)
(***************************************************************************)
C19_ErrorIdentifiesStep ==
    \A c \in AllFinished :
        FailedAt(c) =>
            H(c).out = MigrationFailed(FailedCall(c).edge, FailedCall(c).answer.err)

(***************************************************************************)
(* C19 (amended): in fallible mode the error returned by to_domain is the  *)
(* failing step's own error and nothing more: it is the same result        *)
(* whichever step of the chain returned that error, so it carries no step  *)
(* index.                                                                  *)
(***************************************************************************)
C19_ErrorIsUnderlyingErrorOnly ==
    \A c \in AllFinished :
        FailedAt(c) =>
            /\ FallibleMode
            /\ H(c).out = MigrationErr(FailedCall(c).answer.err)
            /\ \A k \in 1..ChainLen :
                  LET ty == IF k < ChainLen THEN parsed.versions[k + 1] ELSE parsed.ident
                      at_k == bind_next("try_into?", ty, Failed(FailedCall(c).answer.err))
                  IN  at_k.returns /\ after("return", at_k.result) = H(c).out

C19_Witness ==
    \E c \in AllFinished :
        /\ ChainLen = MaxChain
        /\ FailedAt(c)
        /\ EdgesOf(H(c).calls) = <<1, 2>>
        /\ FailedCall(c).answer = Failed(<<"E2">>)
        /\ H(c).out = MigrationErr(<<"E2">>)

\* the 1-based chain position of the variant an envelope holds
VariantIndex(e) == CHOOSE i \in 1..ChainLen : e.variant = <<"V">> \o to_string(i)

(***************************************************************************)
(* C20: the wire form of an envelope of version i is one flat object: the  *)
(* field "_version" holding the decimal string of i beside the fields of   *)
(* shape Vi; and decoding the encoding of an envelope gives back an        *)
(* envelope of the same version with the same payload.                     *)
(***************************************************************************)
C20_WireFormAndRoundTrip ==
    /\ \A c \in AllFinished :
          H(c).op = "encode" =>
              LET e == H(c).in
                  i == VariantIndex(e)
              IN  /\ H(c).out =
                        Wire(Some(Marker(<<"_version">>, to_string(i))), e.payload)
                  /\ H(c).out.fields.ty = parsed.versions[i]
                  /\ (HasNext(c) /\ NextOf(c).op = "decode") =>
                        /\ NextOf(c).in = H(c).out
                        /\ NextOf(c).out = e
                        /\ version(Items.rep_enum, NextOf(c).out) = i
    /\ Compiled =>
          \A e \in AllEnvelopes :
              rep_deserialize(Items.rep_enum, rep_serialize(Items.rep_enum, e)) = e

C20_Witness ==
    \E c \in AllFinished :
        /\ ChainLen = MaxChain
        /\ H(c).op = "encode"
        /\ H(c).in.variant = <<"V", "2">>
        /\ H(c).out.marker = Some(Marker(<<"_version">>, <<"2">>))
        /\ HasNext(c) /\ NextOf(c).op = "decode"
        /\ NextOf(c).out = H(c).in

\* The invocations a conversion has made so far are the edges i, i+1, ... in
\* ascending order without a gap, each fed the value the one before returned.
AscendingFrom(i, start, calls) ==
    /\ Len(calls) <= ChainLen - i + 1
    /\ \A j \in 1..Len(calls) :
          /\ calls[j].edge = i + j - 1
          /\ calls[j].arg = IF j = 1 THEN start.val ELSE calls[j - 1].answer.val

(***************************************************************************)
(* C21: a conversion starting at index i of a chain of length n invokes,   *)
(* when no edge fails, exactly the edges Vi->Vi+1, ..., Vn-1->Vn and then  *)
(* Vn->Domain, each once and in ascending order, n - i + 1 invocations in  *)
(* all; no edge below i is invoked, none skipped or repeated, and for      *)
(* i = n the only edge invoked is Vn->Domain.  At every moment of the      *)
(* conversion the invocations made so far are a prefix of that sequence.   *)
(***************************************************************************)
C21_EdgesInAscendingOrder ==
    /\ \A c \in AllFinished :
          (H(c).op = "to_domain" \/ (H(c).op = "deserialize" /\ H(c).calls # <<>>)) =>
              LET i == ShapeIndex(StartOf(H(c)))
                  calls == H(c).calls
              IN  /\ IsShape(StartOf(H(c)))
                  /\ AscendingFrom(i, StartOf(H(c)), calls)
                  /\ (\A j \in 1..Len(calls) : calls[j].answer.tag = "ok") =>
                        /\ Len(calls) = ChainLen - i + 1
                        /\ EdgesOf(calls) = [j \in 1..(ChainLen - i + 1) |-> i + j - 1]
                  /\ (i = ChainLen) => EdgesOf(calls) = <<ChainLen>>
    /\ \A p \in Procs :
          procs[p].run # None =>
              LET r == unwrap(procs[p].run)
                  i == ShapeIndex(StartOf(r))
              IN  /\ IsShape(StartOf(r))
                  /\ AscendingFrom(i, StartOf(r), r.calls)
                  /\ Len(r.calls) < ChainLen - i + 1
                  /\ Len(r.calls) + Len(r.rest) = ChainLen - i + 1

C21_Witness ==
    \E c \in AllFinished :
        /\ ChainLen = MaxChain
        /\ H(c).op = "to_domain"
        /\ H(c).in.variant = format_ident_V(MaxChain)
        /\ EdgesOf(H(c).calls) = <<MaxChain>>
        /\ H(c).out.kind = "value"

\* the types a chain's conversions ask for, in evaluation order
ChainTypes(chain) == [j \in 1..Len(chain.conversions) |-> chain.conversions[j].ty]

(***************************************************************************)
(* C22: the generated envelope -> domain conversion has exactly one match  *)
(* arm per chain index 1..n, arm i running the chain composed from start   *)
(* index i; the arms cover the n variants with no default arm, so every    *)
(* envelope value enters the arm of its own version.                       *)
(***************************************************************************)
C22_OneArmPerVersion ==
    Compiled =>
        LET arms == Items.conversions.rep_to_domain.arms
            variants == Items.rep_enum.variants
        IN  /\ DOMAIN arms = 1..ChainLen
            /\ \A i \in DOMAIN arms :
                  /\ arms[i].variant_name = <<"V">> \o to_string(i)
                  /\ ChainTypes(arms[i].chain) =
                        SubSeq(parsed.versions, i + 1, ChainLen) \o <<parsed.ident>>
            /\ {arms[i].variant_name : i \in DOMAIN arms}
                  = {variants[i].variant_name : i \in DOMAIN variants}
            /\ \A e \in AllEnvelopes :
                  LET entered == rep_to_domain_enter(Items.conversions, e)
                  IN  /\ entered.matched
                      /\ entered.cur = e.payload
                      /\ entered.rest = arms[VariantIndex(e)].chain.conversions
            /\ \A c \in AllFinished :
                  H(c).op = "to_domain" => H(c).out # RustcError

C22_Witness ==
    /\ Compiled /\ ChainLen = MaxChain
    /\ Len(Items.conversions.rep_to_domain.arms) = MaxChain
    /\ \E c \in AllFinished :
          /\ H(c).op = "to_domain"
          /\ H(c).in.variant = <<"V", "2">>
          /\ EdgesOf(H(c).calls) = <<2, 3>>
          /\ H(c).out.kind = "value"

(***************************************************************************)
(* C23: the generated envelope has exactly n variants for a chain of       *)
(* length n, variant i carrying the i-th chain shape with tag i; the tags  *)
(* are distinct and dense (exactly 1..n), CURRENT is n, and every envelope *)
(* value has 1 <= version() <= CURRENT.                                    *)
(***************************************************************************)
C23_EnvelopeVariantsAndTags ==
    Compiled =>
        LET variants == Items.rep_enum.variants
            arms == Items.rep_enum.version_match_arms
        IN  /\ DOMAIN variants = 1..ChainLen
            /\ DOMAIN arms = 1..ChainLen
            /\ \A i \in 1..ChainLen :
                  /\ variants[i].variant_name = <<"V">> \o to_string(i)
                  /\ variants[i].ty = parsed.versions[i]
                  /\ variants[i].rename = to_string(i)
                  /\ arms[i].variant_name = variants[i].variant_name
                  /\ arms[i].version_num = i
            /\ Cardinality({variants[i].rename : i \in DOMAIN variants}) = ChainLen
            /\ {arms[i].version_num : i \in DOMAIN arms} = 1..ChainLen
            /\ Items.rep_enum.CURRENT = ChainLen
            /\ \A e \in AllEnvelopes :
                  /\ 1 <= version(Items.rep_enum, e)
                  /\ version(Items.rep_enum, e) <= Items.rep_enum.CURRENT
                  /\ e.payload.ty = parsed.versions[version(Items.rep_enum, e)]
            /\ \A c \in AllFinished :
                  H(c).out.kind = "env" =>
                      /\ H(c).out \in AllEnvelopes
                      /\ (H(c).op = "decode") =>
                            H(c).in.marker =
                                Some(Marker(<<"_version">>,
                                            to_string(version(Items.rep_enum, H(c).out))))

C23_Witness ==
    /\ Compiled /\ ChainLen = MaxChain
    /\ Items.rep_enum.CURRENT = MaxChain
    /\ Len(Items.rep_enum.variants) = MaxChain
    /\ \E c \in AllFinished :
          /\ H(c).op = "decode"
          /\ H(c).in.marker = Some(Marker(<<"_version">>, <<"2">>))
          /\ H(c).out.kind = "env"
          /\ version(Items.rep_enum, H(c).out) = 2

\* the three configuration errors of a definition
Misconfigured ==
    \/ ChainLen = 0
    \/ ModeGiven \in {<<"(omitted)">>, <<"fallible">>} /\ parsed.error = None
    \/ ModeGiven \notin {<<"(omitted)">>, <<"infallible">>, <<"fallible">>}

(***************************************************************************)
(* C24: when a definition is rejected (empty chain, fallible mode without  *)
(* an error type, unrecognized mode) the output is the error only: no      *)
(* envelope, no conversion and no transparent serialization code exists,   *)
(* so the rejection shows at definition time and no generated function is  *)
(* ever called.                                                            *)
(***************************************************************************)
C24_RejectionEmitsErrorOnly ==
    /\ (Expanded /\ Misconfigured) => Rejected
    /\ Rejected =>
          /\ Misconfigured
          /\ DOMAIN expansion = {"state", "error"}
          /\ Len(expansion.error) >= 1
          /\ AllFinished = {}
          /\ \A p \in Procs : procs[p].run = None /\ ~Ready(p)

C24_Witness ==
    /\ Rejected
    /\ ChainLen = 0 /\ parsed.transparent
    /\ parsed.mode = Some(<<"infallible">>)
    /\ procs[1].on /\ procs[1].datum.kind = "wire" /\ procs[1].hist = <<>>

(***************************************************************************)
(* Two callers holding values of their own (a version struct or a domain   *)
(* value each), running side by side: their calls, and the single edge     *)
(* invocations of their conversions, interleave freely.                    *)
(***************************************************************************)
DuoOps == 2     \* calls each of two callers with inputs of their own makes

InitDuo ==
    /\ parsed \in ParsedInputs
    /\ expansion = [state |-> "pending"]
    /\ impls = [e \in Edges |-> [v \in Val |-> Unset]]
    /\ \E d1, d2 \in ShapeValues \cup DomainValues :
          procs = [p \in Procs |->
                      IF p = 1 THEN Idle(d1, DuoOps)
                      ELSE IF p = 2 THEN Idle(d2, DuoOps) ELSE Off]

SpecDuo == InitDuo /\ [][Next]_vars

\* What a conversion run on its own returns for an input: the supplied impls
\* applied to it, they being fixed functions.
AloneResult(h) ==
    IF h.op = "to_domain"
    THEN LET m == ManualHops(ShapeIndex(h.in.payload), ChainLen, h.in.payload.val)
         IN  IF m.tag = "ok" THEN Value(parsed.ident, m.val) ELSE MigrationErr(m.err)
    ELSE Envelope(<<"V">> \o to_string(ChainLen),
                  Value(parsed.versions[ChainLen], impls[Projection][h.in.val].val))

\* every finished conversion returned what it returns when run alone, and equal
\* conversions of two callers returned the same
ResultsAsAlone ==
    /\ \A c \in AllFinished :
          H(c).op \in {"to_domain", "from_domain"} => H(c).out = AloneResult(H(c))
    /\ \A c, k \in AllFinished :
          (H(c).op = H(k).op /\ H(c).in = H(k).in) =>
              (H(c).out = H(k).out /\ H(c).calls = H(k).calls)

\* a step of one caller touches nothing of another caller, the definition and the
\* generated items are only read, and an impl's answer never changes
StepIsLocal ==
    /\ parsed' = parsed
    /\ Compiled => expansion' = expansion
    /\ \A p, q \in Procs : (p # q /\ procs[p]' # procs[p]) => procs[q]' = procs[q]
    /\ \A e \in Edges, v \in Val : impls[e][v] # Unset => impls[e][v]' = impls[e][v]

(***************************************************************************)
(* C25: when several conversions (to_domain or from_domain, on the same or *)
(* on different envelopes) run interleaved at the granularity of single    *)
(* edge invocations, each returns the result it returns when run alone;    *)
(* the conversions share no mutable state and the chain definition is only *)
(* read.                                                                   *)
(***************************************************************************)
C25_InterleavedConversionsAreIndependent ==
    []ResultsAsAlone /\ [][StepIsLocal]_vars

C25_Witness ==
    \E c, k \in AllFinished :
        /\ ChainLen = MaxChain
        /\ c[1] = 1 /\ k[1] = 2
        /\ H(c).op = "to_domain" /\ H(k).op = "to_domain"
        /\ H(c).in.variant = <<"V", "1">> /\ H(k).in.variant = <<"V", "2">>
        /\ H(c).out.kind = "value" /\ H(k).out.kind = "value"
        /\ H(c).out = AloneResult(H(c)) /\ H(k).out = AloneResult(H(k))

(***************************************************************************)
(* C26: in fallible mode the error returned by to_domain is the error      *)
(* value produced by the failing edge itself, passed on uninterpreted: no  *)
(* step index and no other context is added, and two different failing     *)
(* edges producing the same error value give indistinguishable results.    *)
(***************************************************************************)
C26_ErrorPropagatedUnenriched ==
    /\ \A c \in AllFinished :
          FailedAt(c) =>
              /\ H(c).out.kind = "err"
              /\ DOMAIN H(c).out = {"kind", "class", "err"}
              /\ H(c).out.err = FailedCall(c).answer.err
              /\ H(c).out.err \in ErrVals
    /\ \A c, k \in AllFinished :
          ( /\ FailedAt(c) /\ FailedAt(k)
            /\ FailedCall(c).answer.err = FailedCall(k).answer.err ) =>
              H(c).out = H(k).out

C26_Witness ==
    \E c, k \in AllFinished :
        /\ ChainLen = MaxChain
        /\ FailedAt(c) /\ FailedAt(k)
        /\ FailedCall(c).edge = 1 /\ FailedCall(k).edge = MaxChain
        /\ FailedCall(c).answer.err = FailedCall(k).answer.err
        /\ H(c).out = H(k).out

(***************************************************************************)
(* C27: the two implementations of the pipeline, VersionedReceiver's       *)
(* generate in lib.rs and validate followed by emit's generate, accept the *)
(* same definitions and, for every accepted definition, generate the same  *)
(* envelope, conversions and transparent serialization code.               *)
(***************************************************************************)
C27_PipelinesAgree ==
    LET derived == receiver_generate(parsed)
        emitted == validate_and_generate(parsed)
    IN  /\ (derived.state = "items") <=> (emitted.state = "items")
        /\ (derived.state = "items") <=> validate(parsed).ok
        /\ (derived.state = "items") =>
              /\ derived.items.rep_enum = emitted.items.rep_enum
              /\ derived.items.conversions = emitted.items.conversions
              /\ derived.items.transparent_serde = emitted.items.transparent_serde
        /\ Expanded => expansion \in {derived, emitted}
        /\ Compiled => (expansion = derived /\ expansion = emitted)

C27_Witness ==
    /\ Compiled /\ Transparent /\ ChainLen = MaxChain
    /\ parsed.mode = None /\ parsed.representation = None
    /\ expansion = receiver_generate(parsed)
    /\ expansion = validate_and_generate(parsed)
    /\ \E c \in AllFinished : H(c).op = "deserialize" /\ H(c).out.kind = "value"

(***************************************************************************)
(* C28: from_domain(&d) invokes the Domain->Vn projection exactly once and *)
(* no forward migration edge, cannot fail in either mode, and leaves d as  *)
(* it is: it takes d by shared reference.                                  *)
(***************************************************************************)
C28_FromDomainFrame ==
    /\ Compiled =>
          /\ Items.conversions.domain_to_rep.trait = "From"
          /\ Items.conversions.domain_to_rep.from = <<"&">> \o parsed.ident
    /\ \A c \in AllFinished :
          H(c).op = "from_domain" =>
              /\ H(c).in \in DomainValues
              /\ Len(H(c).calls) = 1
              /\ H(c).calls[1].edge = Projection
              /\ H(c).calls[1].arg = H(c).in.val
              /\ H(c).calls[1].answer.tag = "ok"
              /\ \A j \in 1..Len(H(c).calls) : H(c).calls[j].edge \notin 1..ChainLen
              /\ H(c).out.kind = "env"
              /\ H(c).out.payload.val = H(c).calls[1].answer.val

C28_Witness ==
    \E c \in AllFinished :
        /\ ChainLen = MaxChain /\ FallibleMode
        /\ H(c).op = "from_domain"
        /\ H(c).in = Value(DomainIdent, 1)
        /\ EdgesOf(H(c).calls) = <<Projection>>
        /\ H(c).out.kind = "env"

\* wire data that is no complete envelope: no valid marker, or fields that are
\* not those of the marked version
Undecodable(w) ==
    \/ w.marker \notin ValidMarkers
    \/ \E i \in 1..ChainLen :
          /\ w.marker = Some(Marker(<<"_version">>, to_string(i)))
          /\ w.fields.ty # parsed.versions[i]

(***************************************************************************)
(* C29: with transparent bridging, when decoding the envelope fails        *)
(* (absent or unknown tag, fields that do not decode) the decode error is  *)
(* returned as it is and no migration edge is invoked; migration starts    *)
(* only after a complete envelope has been decoded.                        *)
(***************************************************************************)
C29_DecodeFailureStopsBeforeMigration ==
    /\ \A c \in AllFinished :
          H(c).op = "deserialize" =>
              /\ Undecodable(H(c).in) =>
                    /\ H(c).out.kind = "err"
                    /\ H(c).out.class = "serde"
                    /\ H(c).out.what \in {"missing_tag", "unknown_variant", "invalid_fields"}
                    /\ H(c).out.inner = None
                    /\ H(c).calls = <<>>
              /\ H(c).calls # <<>> => ~Undecodable(H(c).in)
              /\ ~Undecodable(H(c).in) => H(c).calls # <<>>
    /\ \A p \in Procs :
          (procs[p].run # None /\ unwrap(procs[p].run).op = "deserialize") =>
              ~Undecodable(unwrap(procs[p].run).in)

C29_Witness ==
    \E c \in AllFinished :
        /\ ChainLen = MaxChain /\ FallibleMode
        /\ H(c).op = "deserialize"
        /\ H(c).in.marker = Some(Marker(<<"_version">>, <<"1">>))
        /\ H(c).in.fields.ty = parsed.versions[2]
        /\ H(c).out = SerdeError("invalid_fields", None)
        /\ H(c).calls = <<>>

(***************************************************************************)
(* C30: for every chain index i and every shape value v of version i, the  *)
(* generated From<Vi> for the envelope wraps v unchanged in variant i:     *)
(* version(Envelope::from(v)) is i, and it is current exactly when i = n.  *)
(***************************************************************************)
C30_FromVersionWrapsInOwnVariant ==
    /\ Compiled =>
          \A i \in 1..ChainLen, x \in Val :
              LET v == Value(parsed.versions[i], x)
                  e == rep_from_version(Items.rep_enum, v)
              IN  /\ e = Envelope(<<"V">> \o to_string(i), v)
                  /\ version(Items.rep_enum, e) = i
                  /\ is_current(Items.rep_enum, e) <=> (i = ChainLen)
    /\ \A c \in AllFinished :
          H(c).op = "wrap" =>
              /\ IsShape(H(c).in)
              /\ H(c).out.kind = "env"
              /\ H(c).out.payload = H(c).in
              /\ H(c).out.variant = <<"V">> \o to_string(ShapeIndex(H(c).in))
              /\ version(Items.rep_enum, H(c).out) = ShapeIndex(H(c).in)
              /\ is_current(Items.rep_enum, H(c).out) <=> (ShapeIndex(H(c).in) = ChainLen)
              /\ H(c).calls = <<>>

C30_Witness ==
    \E c \in AllFinished :
        /\ ChainLen = MaxChain
        /\ H(c).op = "wrap"
        /\ H(c).in = Value(TypePath(2), 1)
        /\ H(c).out = Envelope(<<"V", "2">>, Value(TypePath(2), 1))
        /\ version(Items.rep_enum, H(c).out) = 2
        /\ ~is_current(Items.rep_enum, H(c).out)

====
